---- MODULE Spec2Model ----
(***************************************************************************)
(* Model of googlemap_poi_extractor.py: the recursive variable bounding    *)
(* box extraction (variable_bounding_box), the single search request       *)
(* (extract_poi), the record builder (format_query_result), the region     *)
(* filter (pixelise_region) and the closing pass of __main__.              *)
(*                                                                         *)
(* Geometry is planar: a latitude / longitude is an integer number of half *)
(* metres, and a box edge (querybox_dim) is a number of half metres, so    *)
(* that the floor of 2.5 m is FloorHalfMetres = 5 and every halving the    *)
(* code performs (only on edges >= 5 m) is exact, as it is in floating     *)
(* point.  A tile is the tuple <<min_lat, min_lng, max_lat, max_lng>>,     *)
(* the order of the code's `coordinate`.                                   *)
(***************************************************************************)
EXTENDS Integers, Sequences, FiniteSets, TLC

VARIABLES
    runs,            \* history: how many times the program has been started
    conf,            \* the run's configuration: box, querybox_dim, shapefile, service
    mainpc,          \* position of __main__
    stack,           \* call stack of variable_bounding_box frames (top = last)
    num_queries,     \* global num_queries
    box_dimensions,  \* global box_dimensions
    file_exists,     \* os.path.exists(output_filename)
    features,        \* feature_collection['features'] stored in output_filename
    today,           \* the date extract_date() returns
    slept,           \* seconds slept since the last search request (0 = none)
    requests,        \* history: number of requests.get calls issued by extract_poi
    failures,        \* history: number of failed attempts (bounded by MaxRetries)
    last_tile,       \* history: the tile of the last search request
    last_outcome,    \* history: outcome class of the last search request
    max_depth,       \* history: deepest nesting of variable_bounding_box reached
    raw,             \* history: the features read by the closing pass
    reported,        \* the tally printed by the final summary
    log,             \* history: what each tile visit appended to the collection
    xargs,           \* arguments of a stand-alone extract_poi call
    xout             \* outcome of that call

vars == <<runs, conf, mainpc, stack, num_queries, box_dimensions, file_exists, features,
          today, slept, requests, failures, last_tile, last_outcome, max_depth,
          raw, reported, log, xargs, xout>>

(***************************************************************************)
(* Program constants and bounds                                            *)
(***************************************************************************)
ResultCap == 20
FloorHalfMetres == 5
wait_time == 15
PacingSeconds == 1
SecondsPerMinute == 60
DefaultExtent == 100

MaxRetries == 2
MaxRuns == 2
MaxCount == 22
MaxEdge == 12
MaxDay == 2
NPoi == 21

\* An optional argument: None, or Some(v)
None == <<>>
Some(v) == <<v>>

(***************************************************************************)
(* Geometry helpers (helper_functions, not part of the extractor module)   *)
(***************************************************************************)
CeilDiv(a, b) == (a + b - 1) \div b

\* Tiles of edge querybox_dim covering the box, row by row; the last row and
\* column may reach past the box.
divide_bounding_box(max_lat, min_lat, max_lng, min_lng, querybox_dim) ==
    LET ny == CeilDiv(max_lat - min_lat, querybox_dim)
        nx == CeilDiv(max_lng - min_lng, querybox_dim)
    IN [k \in 1..(ny * nx) |->
          LET r == (k - 1) \div nx
              c == (k - 1) % nx
          IN <<min_lat + r * querybox_dim, min_lng + c * querybox_dim,
               min_lat + (r + 1) * querybox_dim, min_lng + (c + 1) * querybox_dim>>]

\* min and max inclusive
within_boundary_area(lat, lng, min_lat, max_lat, min_lng, max_lng) ==
    /\ min_lat <= lat /\ lat <= max_lat
    /\ min_lng <= lng /\ lng <= max_lng

\* <<max_lat, max_lng, min_lat, min_lng>> of the l x h box centred on (lat, lng)
translate_coordinate(lat, lng, l, h) ==
    <<lat + h \div 2, lng + l \div 2, lat - h \div 2, lng - l \div 2>>

\* The midpoint, as the pair of DOUBLED coordinates (the midpoint of an odd
\* edge is not a whole number of half metres).
identify_centroid(max_lat, max_lng, min_lat, min_lng) ==
    <<max_lat + min_lat, max_lng + min_lng>>

\* Square of the doubled distance from the (doubled) centre to the corner
\* (max_lat, max_lng).
calculate_circle_radius(max_lat, max_lng, lat2, lng2) ==
    (2 * max_lat - lat2) * (2 * max_lat - lat2)
        + (2 * max_lng - lng2) * (2 * max_lng - lng2)

\* One record per distinct id, the first occurrence, in input order: the
\* first occurrences of the first half, then those of the second half whose id
\* the first half does not hold.
RECURSIVE remove_duplicate(_)
remove_duplicate(fs) ==
    IF Len(fs) <= 1 THEN fs
    ELSE LET h == Len(fs) \div 2
             a == remove_duplicate(SubSeq(fs, 1, h))
             b == remove_duplicate(SubSeq(fs, h + 1, Len(fs)))
             ids == {a[k].id : k \in 1..Len(a)}
         IN a \o SelectSeq(b, LAMBDA f : f.id \notin ids)

(***************************************************************************)
(* Shapely's Point(x, y).within(polygon), for the axis-parallel rectangles *)
(* <<min_lat, min_lng, max_lat, max_lng>> the model's shapefiles hold:     *)
(* the point lies in the interior, not on the boundary.                    *)
(***************************************************************************)
PointWithin(lng, lat, poly) ==
    /\ poly[1] < lat /\ lat < poly[3]
    /\ poly[2] < lng /\ lng < poly[4]

\* keeps a tile iff one of its four corners lies within some polygon
pixelise_region(coordinates, shapefile) ==
    SelectSeq(coordinates, LAMBDA coordinate :
        \/ \E x \in shapefile : PointWithin(coordinate[2], coordinate[1], x)
        \/ \E x \in shapefile : PointWithin(coordinate[4], coordinate[1], x)
        \/ \E x \in shapefile : PointWithin(coordinate[2], coordinate[3], x)
        \/ \E x \in shapefile : PointWithin(coordinate[4], coordinate[3], x))

(***************************************************************************)
(* extract_poi: the arguments are a record with fields max_lat, max_lng,   *)
(* min_lat, min_lng, lat, lng (None when not supplied), l and h.  The      *)
(* result tells whether ValueError was raised and how many requests were   *)
(* sent, with the location (doubled) and radius of the request.  In the    *)
(* third branch the caller's centre is absent or incomplete, and the       *)
(* second test then raises.                                                *)
(***************************************************************************)
Raised == [raised |-> TRUE, sent |-> 0, location |-> None, radius |-> None]

\* variant: only the first test (nothing supplied at all) raises; an
\* incomplete box goes on to the request with a centre of its own
extract_poi_FirstTestOnly(a) ==
    IF a.max_lat = None /\ a.max_lng = None /\ a.min_lat = None
         /\ a.min_lng = None /\ a.lat = None /\ a.lng = None
    THEN Raised
    ELSE [raised |-> FALSE, sent |-> 1, location |-> <<0, 0>>, radius |-> Some(0)]

extract_poi(a) ==
    IF a.max_lat = None /\ a.max_lng = None /\ a.min_lat = None
         /\ a.min_lng = None /\ a.lat = None /\ a.lng = None
    THEN Raised
    ELSE LET b == IF a.lat # None /\ a.lng # None
                  THEN LET t == translate_coordinate(a.lat[1], a.lng[1], a.l, a.h)
                       IN [max_lat |-> Some(t[1]), max_lng |-> Some(t[2]),
                           min_lat |-> Some(t[3]), min_lng |-> Some(t[4]),
                           lat |-> Some(2 * a.lat[1]), lng |-> Some(2 * a.lng[1])]
                  ELSE IF a.max_lat # None /\ a.max_lng # None
                            /\ a.min_lat # None /\ a.min_lng # None
                  THEN LET c == identify_centroid(a.max_lat[1], a.max_lng[1],
                                                  a.min_lat[1], a.min_lng[1])
                       IN [max_lat |-> a.max_lat, max_lng |-> a.max_lng,
                           min_lat |-> a.min_lat, min_lng |-> a.min_lng,
                           lat |-> Some(c[1]), lng |-> Some(c[2])]
                  ELSE [max_lat |-> a.max_lat, max_lng |-> a.max_lng,
                        min_lat |-> a.min_lat, min_lng |-> a.min_lng,
                        lat |-> a.lat, lng |-> a.lng]
         IN IF b.max_lat = None \/ b.max_lng = None \/ b.min_lat = None
                 \/ b.min_lng = None \/ b.lat = None \/ b.lng = None
            THEN Raised
            ELSE [raised |-> FALSE, sent |-> 1,
                  location |-> <<b.lat[1], b.lng[1]>>,
                  radius |-> Some(calculate_circle_radius(b.max_lat[1], b.max_lng[1],
                                                          b.lat[1], b.lng[1]))]

\* the call of variable_bounding_box: the tile's box, no centre point
TileArgs(coordinate) ==
    [max_lat |-> Some(coordinate[3]), max_lng |-> Some(coordinate[4]),
     min_lat |-> Some(coordinate[1]), min_lng |-> Some(coordinate[2]),
     lat |-> None, lng |-> None, l |-> DefaultExtent, h |-> DefaultExtent]

(***************************************************************************)
(* format_query_result: reads the MODULE-LEVEL min_lat, max_lat, min_lng,  *)
(* max_lng (the area of interest set in __main__), which are the box of    *)
(* the configuration here, and stamps each record with the current date.   *)
(***************************************************************************)
FormatHit(hit, date) ==
    [id |-> hit.id, lat |-> hit.lat, lng |-> hit.lng, extraction_date |-> date]

\* variant: the longitude is not tested
HitKept_LatOnly(hit, box) ==
    box[1] <= hit.lat /\ hit.lat <= box[3]

HitKept(hit, box) ==
    within_boundary_area(hit.lat, hit.lng, box[1], box[3], box[2], box[4])

RECURSIVE format_query_result(_, _, _)
format_query_result(query_result, box, date) ==
    IF query_result = <<>> THEN <<>>
    ELSE LET rest == format_query_result(Tail(query_result), box, date)
         IN IF ~HitKept(Head(query_result), box) THEN rest
            ELSE <<FormatHit(Head(query_result), date)>> \o rest

(***************************************************************************)
(* The search service (external).  A hit is [id, lat, lng].                *)
(*   "any"    : answers anything: ZERO_RESULTS, or OK with a list of       *)
(*              points of interest of a fixed world, one of Lists; may     *)
(*              also fail (see the Try actions)                            *)
(*   "stub10" : deterministic: OK with ResultCap hits for an edge of 10 m  *)
(*              or more, OK with one hit otherwise                         *)
(*   "ok5"    : deterministic: OK with E2EHits hits, never truncated       *)
(* The stubs answer by the tile alone: they place their hits on the tile's *)
(* corner and number them from a base that no other tile shares (TileNo),  *)
(* so that the hits of different tiles have different ids.                 *)
(***************************************************************************)
StubTruncEdge == 20
E2EHits == 5

Poi(k) == [id |-> k, lat |-> (3 * k) % 12, lng |-> (5 * k) % 12]

Hits(s, n) == [j \in 1..n |-> Poi(((s + j - 2) % NPoi) + 1)]

\* a tile's row and column in the grid of its edge, and the edge, all below Span
Span == 1024
TileNo(coordinate, querybox_dim) ==
    ((coordinate[1] \div querybox_dim) * Span + coordinate[2] \div querybox_dim) * Span
        + querybox_dim

StubHits(coordinate, n, base) ==
    [j \in 1..n |-> [id |-> base + j, lat |-> coordinate[1], lng |-> coordinate[2]]]

\* the lists the "any" service answers with: <<first point, length>>
Lists == {<<1, 0>>, <<1, 2>>, <<7, 2>>, <<1, ResultCap - 1>>, <<1, ResultCap>>}

OK(results) == [status |-> "OK", results |-> results]
ZERO_RESULTS == [status |-> "ZERO_RESULTS", results |-> <<>>]
Unbound == [status |-> "unbound", results |-> <<>>]

\* statuses other than OK and ZERO_RESULTS that the service documents
OtherStatuses == {"OVER_QUERY_LIMIT", "REQUEST_DENIED"}

Answers(service, coordinate, querybox_dim) ==
    CASE service = "any" ->
           {ZERO_RESULTS} \cup {OK(Hits(sn[1], sn[2])) : sn \in Lists}
      [] service = "stub10" ->
           {OK(StubHits(coordinate,
                        IF querybox_dim >= StubTruncEdge THEN ResultCap ELSE 1,
                        ResultCap * TileNo(coordinate, querybox_dim)))}
      [] service = "ok5" ->
           {OK(StubHits(coordinate, E2EHits,
                        ResultCap * TileNo(coordinate, querybox_dim)))}

(***************************************************************************)
(* Configurations: box <<min_lat, min_lng, max_lat, max_lng>> (the module- *)
(* level max_lat .. min_lng of __main__), initial querybox_dim, shapefile  *)
(* (a set of rectangles) and the service.                                  *)
(***************************************************************************)
Conf(box, dim, shapefile, service) ==
    [box |-> box, querybox_dim |-> dim, shapefile |-> shapefile, service |-> service]

Scenarios ==
    { \* one 5 m tile, subdivided into four 2.5 m tiles when truncated
      \* when truncated; the region covers the two southern ones only
      Conf(<<0, 0, 10, 10>>, 10, {<<-1, -1, 4, 11>>}, "any"),
      \* two 4 m tiles, already below the floor
      Conf(<<0, 0, 8, 16>>, 8, {<<-1, -1, 9, 17>>}, "any"),
      \* a 40 m box under the stub that truncates from 10 m on
      Conf(<<0, 0, 80, 80>>, 80, {<<-1, -1, 81, 81>>}, "stub10"),
      \* a 1000 m square region, 500 m tiles, 5 hits a call
      Conf(<<0, 0, 2000, 2000>>, 1000, {<<0, 0, 2000, 2000>>}, "ok5") }

\* what an earlier run may have left in output_filename
PriorFiles == { <<>>, <<FormatHit(Poi(1), 0)>> }

NoCall == [raised |-> FALSE, sent |-> 0, location |-> None, radius |-> None]
NoArgs == [max_lat |-> None, max_lng |-> None, min_lat |-> None, min_lng |-> None,
           lat |-> None, lng |-> None, l |-> DefaultExtent, h |-> DefaultExtent]
NoTile == <<>>

Init ==
    /\ runs = 1
    /\ conf \in Scenarios
    /\ mainpc = "start"
    /\ stack = <<>>
    /\ num_queries = 0
    /\ box_dimensions = <<>>
    /\ file_exists \in (IF conf.service = "any" THEN BOOLEAN ELSE {FALSE})
    /\ features \in (IF file_exists THEN PriorFiles ELSE {<<>>})
    /\ today = 1
    /\ slept = 0
    /\ requests = 0
    /\ failures = 0
    /\ last_tile = NoTile
    /\ last_outcome = "none"
    /\ max_depth = 0
    /\ raw = <<>>
    /\ reported = -1
    /\ log = <<>>
    /\ xargs = NoArgs
    /\ xout = NoCall

(***************************************************************************)
(* variable_bounding_box.  A frame is one activation: its coordinate_list, *)
(* the position i in it (1-based), its querybox_dim, its query_result and  *)
(* where it stands:                                                        *)
(*   "loop"  at the head of the for loop                                   *)
(*   "try"   in the while loop, about to call extract_poi                  *)
(*   "pause" in the while loop, about to sleep wait_time minutes           *)
(*   "emit"  past the while loop (and past the nested call, if any)        *)
(* and, as history, the number of extract_poi calls made for the current   *)
(* coordinate (attempts).                                                  *)
(***************************************************************************)
Top == stack[Len(stack)]
WithTop(f) == [stack EXCEPT ![Len(stack)] = f]
At(pc) == mainpc = "run" /\ stack # <<>> /\ Top.pc = pc
Coordinate(f) == f.coordinate_list[f.i]

\* the prologue: tessellate, then filter by the module-level shapefile
NewFrame(max_lat, min_lat, max_lng, min_lng, querybox_dim) ==
    [coordinate_list |->
         pixelise_region(divide_bounding_box(max_lat, min_lat, max_lng, min_lng,
                                             querybox_dim), conf.shapefile),
     i |-> 1, querybox_dim |-> querybox_dim, pc |-> "loop", query_result |-> Unbound,
     attempts |-> 0]

\* variant: the floor test is strict (querybox_dim / 2 > 2.5)
Branch_FloorExclusive(status, n, querybox_dim) ==
    CASE status = "ZERO_RESULTS" \/ n < ResultCap -> "record"
      [] n >= ResultCap /\ querybox_dim > 2 * FloorHalfMetres -> "recurse"
      [] n >= ResultCap /\ querybox_dim <= 2 * FloorHalfMetres -> "record_floor"
      [] OTHER -> "raise"

\* variant: the floor is applied to the edge, not to half of it
Branch_FloorOnEdge(status, n, querybox_dim) ==
    CASE status = "ZERO_RESULTS" \/ n < ResultCap -> "record"
      [] n >= ResultCap /\ querybox_dim >= FloorHalfMetres -> "recurse"
      [] n >= ResultCap /\ querybox_dim < FloorHalfMetres -> "record_floor"
      [] OTHER -> "raise"

\* variant: the truncated branches test for more than the cap
Branch_AboveCap(status, n, querybox_dim) ==
    CASE status = "ZERO_RESULTS" \/ n < ResultCap -> "record"
      [] n > ResultCap /\ querybox_dim >= 2 * FloorHalfMetres -> "recurse"
      [] n > ResultCap /\ querybox_dim < 2 * FloorHalfMetres -> "record_floor"
      [] OTHER -> "raise"

\* variant: the floor is taken to be 25 m instead of 2.5 m
Branch_FloorTooHigh(status, n, querybox_dim) ==
    CASE status = "ZERO_RESULTS" \/ n < ResultCap -> "record"
      [] n >= ResultCap /\ querybox_dim >= 20 * FloorHalfMetres -> "recurse"
      [] n >= ResultCap /\ querybox_dim < 20 * FloorHalfMetres -> "record_floor"
      [] OTHER -> "raise"

\* variant: the cap is taken to be a quarter of the service's
Branch_LowCap(status, n, querybox_dim) ==
    CASE status = "ZERO_RESULTS" \/ n < ResultCap \div 4 -> "record"
      [] n >= ResultCap \div 4 /\ querybox_dim >= 2 * FloorHalfMetres -> "recurse"
      [] n >= ResultCap \div 4 /\ querybox_dim < 2 * FloorHalfMetres -> "record_floor"
      [] OTHER -> "raise"

\* the branch taken on a response with status OK or ZERO_RESULTS
Branch(status, n, querybox_dim) ==
    CASE status = "ZERO_RESULTS" \/ n < ResultCap -> "record"
      [] n >= ResultCap /\ querybox_dim >= 2 * FloorHalfMetres -> "recurse"
      [] n >= ResultCap /\ querybox_dim < 2 * FloorHalfMetres -> "record_floor"
      [] OTHER -> "raise"

\* variant: the pacing sleep sits in the recording branches only
Paced_NotBeforeRecursion(b) == IF b = "recurse" THEN 0 ELSE PacingSeconds

\* time.sleep(1) on a response with status OK or ZERO_RESULTS, before the
\* branch b is taken: the seconds slept
Paced(b) == PacingSeconds

\* the status test of the while loop
Succeeded(status) == status = "OK" \/ status = "ZERO_RESULTS"

\* variant: the existing file is overwritten with the new records alone
Emitted_Overwrite(query_result, exists, feats, box, date) ==
    IF query_result.status = "ZERO_RESULTS" THEN <<feats, exists>>
    ELSE IF query_result.results # <<>>
    THEN <<format_query_result(query_result.results, box, date), TRUE>>
    ELSE <<feats, exists>>

\* variant: the response is stored by both arms of the file test
Emitted_Twice(query_result, exists, feats, box, date) ==
    IF query_result.status = "ZERO_RESULTS" THEN <<feats, exists>>
    ELSE IF query_result.results # <<>>
    THEN <<feats \o format_query_result(query_result.results, box, date)
                 \o format_query_result(query_result.results, box, date), TRUE>>
    ELSE <<feats, exists>>

\* variant: a truncated response is dropped instead of stored
Emitted_Discard(query_result, exists, feats, box, date) ==
    IF query_result.status = "ZERO_RESULTS" THEN <<feats, exists>>
    ELSE IF query_result.results # <<>> /\ Len(query_result.results) < ResultCap
    THEN IF exists
         THEN <<feats \o format_query_result(query_result.results, box, date), TRUE>>
         ELSE <<format_query_result(query_result.results, box, date), TRUE>>
    ELSE <<feats, exists>>

\* what the tile's visit leaves in the output file: <<features, file_exists>>
Emitted(query_result, exists, feats, box, date) ==
    IF query_result.status = "ZERO_RESULTS" THEN <<feats, exists>>
    ELSE IF query_result.results # <<>>
    THEN IF exists
         THEN <<feats \o format_query_result(query_result.results, box, date), TRUE>>
         ELSE <<format_query_result(query_result.results, box, date), TRUE>>
    ELSE <<feats, exists>>

\* the tally: one per tile visit, at the head of the loop body
Tally(n) == n + 1

\* __main__ calls variable_bounding_box on the whole box
Start ==
    /\ mainpc = "start"
    /\ mainpc' = "run"
    /\ stack' = <<NewFrame(conf.box[3], conf.box[1], conf.box[4], conf.box[2],
                           conf.querybox_dim)>>
    /\ max_depth' = 1
    /\ UNCHANGED <<runs, conf, num_queries, box_dimensions, file_exists, features, today,
                   slept, requests, failures, last_tile, last_outcome, raw,
                   reported, log, xargs, xout>>

\* the for loop takes the next coordinate
LoopNext ==
    /\ At("loop")
    /\ Top.i <= Len(Top.coordinate_list)
    /\ num_queries' = Tally(num_queries)
    /\ stack' = WithTop([Top EXCEPT !.pc = "try", !.attempts = 0])
    /\ UNCHANGED <<runs, conf, mainpc, box_dimensions, file_exists, features, today, slept,
                   requests, failures, last_tile, last_outcome, max_depth, raw,
                   reported, log, xargs, xout>>

\* the for loop is exhausted: return to the caller
Return ==
    /\ At("loop")
    /\ Top.i > Len(Top.coordinate_list)
    /\ stack' = SubSeq(stack, 1, Len(stack) - 1)
    /\ mainpc' = IF Len(stack) = 1 THEN "summary" ELSE mainpc
    /\ UNCHANGED <<runs, conf, num_queries, box_dimensions, file_exists, features, today,
                   slept, requests, failures, last_tile, last_outcome, max_depth,
                   raw, reported, log, xargs, xout>>

\* what every call of extract_poi from the while loop does
Called(call) ==
    /\ xargs' = TileArgs(Coordinate(Top))
    /\ xout' = call
    /\ requests' = requests + call.sent
    /\ last_tile' = Coordinate(Top)

\* variant: a connection error gives the coordinate up and moves on
TryConnectionError_Skip ==
    /\ At("try")
    /\ conf.service = "any"
    /\ failures < MaxRetries
    /\ LET call == extract_poi(TileArgs(Coordinate(Top)))
       IN /\ ~call.raised
          /\ Called(call)
    /\ failures' = failures + 1
    /\ last_outcome' = "connection_error"
    /\ slept' = 0
    /\ stack' = WithTop([Top EXCEPT !.pc = "loop", !.i = Top.i + 1,
                                    !.attempts = Top.attempts + 1])
    /\ UNCHANGED <<runs, conf, mainpc, num_queries, box_dimensions, file_exists, features,
                   today, max_depth, raw, reported, log>>

\* extract_poi raises ConnectionError: query_result is not assigned
TryConnectionError ==
    /\ At("try")
    /\ conf.service = "any"
    /\ failures < MaxRetries
    /\ LET call == extract_poi(TileArgs(Coordinate(Top)))
       IN /\ ~call.raised
          /\ Called(call)
    /\ failures' = failures + 1
    /\ last_outcome' = "connection_error"
    /\ slept' = 0
    /\ stack' = WithTop([Top EXCEPT !.pc = "pause", !.attempts = Top.attempts + 1])
    /\ UNCHANGED <<runs, conf, mainpc, num_queries, box_dimensions, file_exists, features,
                   today, max_depth, raw, reported, log>>

\* variant: the tally is taken per attempt
TryOtherStatus_Tallied ==
    /\ At("try")
    /\ conf.service = "any"
    /\ failures < MaxRetries
    /\ \E status \in OtherStatuses :
         /\ ~Succeeded(status)
         /\ stack' = WithTop([Top EXCEPT !.pc = "pause",
                                         !.attempts = Top.attempts + 1,
                                         !.query_result = [status |-> status,
                                                           results |-> <<>>]])
         /\ last_outcome' = status
    /\ LET call == extract_poi(TileArgs(Coordinate(Top)))
       IN /\ ~call.raised
          /\ Called(call)
    /\ failures' = failures + 1
    /\ slept' = 0
    /\ num_queries' = Tally(num_queries)
    /\ UNCHANGED <<runs, conf, mainpc, box_dimensions, file_exists, features,
                   today, max_depth, raw, reported, log>>

\* a response whose status is neither OK nor ZERO_RESULTS
TryOtherStatus ==
    /\ At("try")
    /\ conf.service = "any"
    /\ failures < MaxRetries
    /\ \E status \in OtherStatuses :
         /\ ~Succeeded(status)
         /\ stack' = WithTop([Top EXCEPT !.pc = "pause",
                                         !.attempts = Top.attempts + 1,
                                         !.query_result = [status |-> status,
                                                           results |-> <<>>]])
         /\ last_outcome' = status
    /\ LET call == extract_poi(TileArgs(Coordinate(Top)))
       IN /\ ~call.raised
          /\ Called(call)
    /\ failures' = failures + 1
    /\ slept' = 0
    /\ UNCHANGED <<runs, conf, mainpc, num_queries, box_dimensions, file_exists, features,
                   today, max_depth, raw, reported, log>>

\* time.sleep(wait_time * 60), then the while loop tries again; the date may
\* change during the pause
Pause ==
    /\ At("pause")
    /\ slept' = slept + wait_time * SecondsPerMinute
    /\ \E d \in {today, today + 1} :
         /\ d <= MaxDay
         /\ today' = d
    /\ stack' = WithTop([Top EXCEPT !.pc = "try"])
    /\ UNCHANGED <<runs, conf, mainpc, num_queries, box_dimensions, file_exists, features,
                   requests, failures, last_tile, last_outcome, max_depth, raw,
                   reported, log, xargs, xout>>

\* a response with status OK or ZERO_RESULTS: pace, then branch
TrySuccess ==
    /\ At("try")
    /\ LET call == extract_poi(TileArgs(Coordinate(Top)))
       IN /\ ~call.raised
          /\ Called(call)
    /\ \E r \in Answers(conf.service, Coordinate(Top), Top.querybox_dim) :
         LET c == Coordinate(Top)
             f == [Top EXCEPT !.pc = "emit", !.query_result = r,
                              !.attempts = Top.attempts + 1]
             b == Branch(r.status, Len(r.results), Top.querybox_dim)
         IN /\ Succeeded(r.status)
            /\ last_outcome' = r.status
            /\ slept' = Paced(b)
            /\ CASE b = "record" \/ b = "record_floor" ->
                      /\ box_dimensions' = Append(box_dimensions, Top.querybox_dim)
                      /\ stack' = WithTop(f)
                      /\ UNCHANGED <<mainpc, max_depth>>
                 [] b = "recurse" ->
                      /\ stack' = Append(WithTop(f),
                                         NewFrame(c[3], c[1], c[4], c[2],
                                                  Top.querybox_dim \div 2))
                      /\ max_depth' = IF Len(stack) + 1 > max_depth
                                      THEN Len(stack) + 1 ELSE max_depth
                      /\ UNCHANGED <<mainpc, box_dimensions>>
                 [] OTHER ->   \* raise ValueError
                      /\ mainpc' = "value_error"
                      /\ UNCHANGED <<stack, box_dimensions, max_depth>>
    /\ UNCHANGED <<runs, conf, num_queries, file_exists, features, today, failures, raw,
                   reported, log>>

\* past the while loop: i += 1, then load, append, save
Emit ==
    /\ At("emit")
    /\ LET r == Top.query_result
           e == Emitted(r, file_exists, features, conf.box, today)
       IN /\ features' = e[1]
          /\ file_exists' = e[2]
          /\ log' = Append(log, [coordinate |-> Coordinate(Top),
                                 querybox_dim |-> Top.querybox_dim,
                                 query_result |-> r,
                                 attempts |-> Top.attempts,
                                 before |-> features,
                                 after |-> e[1],
                                 date |-> today])
    /\ stack' = WithTop([Top EXCEPT !.pc = "loop", !.i = Top.i + 1])
    /\ UNCHANGED <<runs, conf, mainpc, num_queries, box_dimensions, today, slept, requests,
                   failures, last_tile, last_outcome, max_depth, raw, reported,
                   xargs, xout>>

(***************************************************************************)
(* __main__ after the call                                                 *)
(***************************************************************************)
\* the final summary's tally
Summary ==
    /\ mainpc = "summary"
    /\ reported' = num_queries
    /\ mainpc' = "closing"
    /\ UNCHANGED <<runs, conf, stack, num_queries, box_dimensions, file_exists, features,
                   today, slept, requests, failures, last_tile, last_outcome,
                   max_depth, raw, log, xargs, xout>>

\* variant: the deduplicated list is not stored back
Deduplicated_Kept(fs) == fs

\* what the closing pass stores
Deduplicated(fs) == remove_duplicate(fs)

\* the closing pass: open(output_filename) fails when no tile wrote the file
Closing ==
    /\ mainpc = "closing"
    /\ IF file_exists
       THEN /\ raw' = features
            /\ features' = Deduplicated(features)
            /\ mainpc' = "done"
       ELSE /\ mainpc' = "file_error"
            /\ UNCHANGED <<raw, features>>
    /\ UNCHANGED <<runs, conf, stack, num_queries, box_dimensions, file_exists, today,
                   slept, requests, failures, last_tile, last_outcome, max_depth,
                   reported, log, xargs, xout>>

Next ==
    \/ Start
    \/ LoopNext
    \/ Return
    \/ TryConnectionError
    \/ TryOtherStatus
    \/ Pause
    \/ TrySuccess
    \/ Emit
    \/ Summary
    \/ Closing

Spec == Init /\ [][Next]_vars

(***************************************************************************)
(* The run under the deterministic stub: the stub never fails, so the      *)
(* steps are those of Next less the failed attempts and the pause.  The    *)
(* program runs on as long as it has a step to take.                       *)
(***************************************************************************)
StubInit == Init /\ conf.service = "stub10"

StubNext ==
    \/ Start
    \/ LoopNext
    \/ Return
    \/ TrySuccess
    \/ Emit
    \/ Summary
    \/ Closing

StubSpec == StubInit /\ [][StubNext]_vars /\ WF_vars(StubNext)

(***************************************************************************)
(* Interrupted runs under a deterministic service.  The process is         *)
(* terminated between two tiles and the program is started again: the      *)
(* module-level state is set up anew, the output file is what the          *)
(* terminated run left.                                                    *)
(***************************************************************************)
RerunScenarios ==
    { \* a 20 m box under the stub that truncates from 10 m on
      Conf(<<0, 0, 40, 40>>, 40, {<<-1, -1, 41, 41>>}, "stub10"),
      \* a 1000 m square region, 500 m tiles, 5 hits a call
      Conf(<<0, 0, 2000, 2000>>, 1000, {<<0, 0, 2000, 2000>>}, "ok5") }

RerunInit ==
    /\ runs = 1
    /\ conf \in RerunScenarios
    /\ mainpc = "start"
    /\ stack = <<>>
    /\ num_queries = 0
    /\ box_dimensions = <<>>
    /\ file_exists = FALSE
    /\ features = <<>>
    /\ today = 1
    /\ slept = 0
    /\ requests = 0
    /\ failures = 0
    /\ last_tile = NoTile
    /\ last_outcome = "none"
    /\ max_depth = 0
    /\ raw = <<>>
    /\ reported = -1
    /\ log = <<>>
    /\ xargs = NoArgs
    /\ xout = NoCall

\* the process is terminated at the head of a for loop and started again
Interrupt ==
    /\ At("loop")
    /\ runs < MaxRuns
    /\ runs' = runs + 1
    /\ mainpc' = "start"
    /\ stack' = <<>>
    /\ num_queries' = 0
    /\ box_dimensions' = <<>>
    /\ slept' = 0
    /\ requests' = 0
    /\ failures' = 0
    /\ last_tile' = NoTile
    /\ last_outcome' = "none"
    /\ max_depth' = 0
    /\ log' = <<>>
    /\ xargs' = NoArgs
    /\ xout' = NoCall
    /\ UNCHANGED <<conf, file_exists, features, today, raw, reported>>

RerunNext ==
    \/ StubNext
    \/ Interrupt

RerunSpec == RerunInit /\ [][RerunNext]_vars

(***************************************************************************)
(* The branches on a successful response on their own: any status that     *)
(* passes the status test, any number of results, any positive edge.       *)
(***************************************************************************)
BranchInit ==
    /\ runs = 1
    /\ conf = Conf(<<0, 0, 10, 10>>, 10, {<<-1, -1, 11, 11>>}, "any")
    /\ mainpc = "branch"
    /\ stack = <<>>
    /\ num_queries = 0
    /\ box_dimensions = <<>>
    /\ file_exists = FALSE
    /\ features = <<>>
    /\ today = 1
    /\ slept = 0
    /\ requests = 0
    /\ failures = 0
    /\ last_tile = NoTile
    /\ last_outcome = "none"
    /\ max_depth = 0
    /\ raw = <<>>
    /\ reported = -1
    /\ log = <<>>
    /\ xargs \in [status : {"OK", "ZERO_RESULTS"}, n : 0..MaxCount,
                  querybox_dim : 1..MaxEdge]
    /\ xout = "none"

BranchCall ==
    /\ mainpc = "branch"
    /\ Succeeded(xargs.status)
    /\ xout' = Branch(xargs.status, xargs.n, xargs.querybox_dim)
    /\ mainpc' = "branched"
    /\ UNCHANGED <<runs, conf, stack, num_queries, box_dimensions, file_exists,
                   features, today, slept, requests, failures, last_tile,
                   last_outcome, max_depth, raw, reported, log, xargs>>

BranchSpec == BranchInit /\ [][BranchCall]_vars

(***************************************************************************)
(* extract_poi on its own: one call with any combination of supplied and   *)
(* missing arguments.                                                      *)
(***************************************************************************)
ArgValues == {None, Some(2), Some(6)}

ExtractInit ==
    /\ runs = 1
    /\ conf = Conf(<<0, 0, 10, 10>>, 10, {<<-1, -1, 11, 11>>}, "any")
    /\ mainpc = "extract"
    /\ stack = <<>>
    /\ num_queries = 0
    /\ box_dimensions = <<>>
    /\ file_exists = FALSE
    /\ features = <<>>
    /\ today = 1
    /\ slept = 0
    /\ requests = 0
    /\ failures = 0
    /\ last_tile = NoTile
    /\ last_outcome = "none"
    /\ max_depth = 0
    /\ raw = <<>>
    /\ reported = -1
    /\ log = <<>>
    /\ xargs \in [max_lat : ArgValues, max_lng : ArgValues, min_lat : ArgValues,
                  min_lng : ArgValues, lat : ArgValues, lng : ArgValues,
                  l : {DefaultExtent}, h : {DefaultExtent}]
    /\ xout = NoCall

ExtractCall ==
    /\ mainpc = "extract"
    /\ xout' = extract_poi(xargs)
    /\ requests' = requests + xout'.sent
    /\ mainpc' = "extracted"
    /\ UNCHANGED <<runs, conf, stack, num_queries, box_dimensions, file_exists, features,
                   today, slept, failures, last_tile, last_outcome, max_depth, raw,
                   reported, log, xargs>>

ExtractSpec == ExtractInit /\ [][ExtractCall]_vars

(***************************************************************************)
(* Properties                                                              *)
(***************************************************************************)
\* the records a tile's visit appended
Appended(e) == SubSeq(e.after, Len(e.before) + 1, Len(e.after))

\* the visit's response was truncated while the tile could still be halved:
\* status OK, at least 20 results, querybox_dim / 2 >= 2.5 m
Subdivided(e) ==
    /\ e.query_result.status = "OK"
    /\ Len(e.query_result.results) >= ResultCap
    /\ e.querybox_dim >= 2 * FloorHalfMetres

Inside(inner, outer) ==
    /\ outer[1] <= inner[1] /\ inner[3] <= outer[3]
    /\ outer[2] <= inner[2] /\ inner[4] <= outer[4]

\* the visits, before visit k, of the half-edge tiles of visit k's tile
SubVisits(k) ==
    {j \in 1..(k - 1) : /\ 2 * log[j].querybox_dim = log[k].querybox_dim
                        /\ Inside(log[j].coordinate, log[k].coordinate)}

InBox(f, box) == within_boundary_area(f.lat, f.lng, box[1], box[3], box[2], box[4])

\* C1 (as stated): a tile whose response is truncated while it can still be
\* subdivided appends none of its own response's records.
C1_OwnRecordsDiscarded ==
    \A k \in 1..Len(log) : Subdivided(log[k]) => log[k].after = log[k].before

\* C1 (amended): such a tile is subdivided first, and once every sub-tile of
\* the region has been visited the tile appends the records of its own
\* response that lie in the area of interest, after the sub-tiles' records.
C1_OwnRecordsAppendedAfterSubTiles ==
    \A k \in 1..Len(log) :
        LET e == log[k]
            c == e.coordinate
        IN Subdivided(e) =>
             /\ e.after = e.before \o format_query_result(e.query_result.results,
                                                          conf.box, e.date)
             /\ Cardinality(SubVisits(k)) =
                  Len(pixelise_region(divide_bounding_box(c[3], c[1], c[4], c[2],
                                                          e.querybox_dim \div 2),
                                      conf.shapefile))

C1_Witness ==
    \E k \in 1..Len(log) :
        /\ Subdivided(log[k])
        /\ SubVisits(k) # {}
        /\ Len(log[k].after) > Len(log[k].before)

C3_OtherStatusStopsRun ==
    last_outcome \in OtherStatuses => mainpc = "value_error"

Final == {"summary", "closing", "done"}

\* C4: under the stub that truncates every tile of edge >= 10 m, the run on
\* the 40 m box terminates, and every edge length recorded in box_dimensions
\* is < 10 m and >= 2.5 m.
C4_StubTerminatesWithEdgesInRange ==
    (conf.service = "stub10" /\ conf.querybox_dim = 4 * StubTruncEdge) =>
        /\ [](\A k \in 1..Len(box_dimensions) :
                 /\ box_dimensions[k] < StubTruncEdge
                 /\ box_dimensions[k] >= FloorHalfMetres)
        /\ <>(mainpc = "done" /\ stack = <<>>)

C4_Witness ==
    /\ conf.service = "stub10"
    /\ conf.querybox_dim = 4 * StubTruncEdge
    /\ mainpc = "done"
    /\ Len(box_dimensions) = 64
    /\ max_depth = 4

\* the visits in progress: one per frame that is past the head of its loop
InProgress == {d \in 1..Len(stack) : stack[d].pc # "loop"}

\* C5: a tile's records are appended exactly once, by the step past the retry
\* loop and from the response that ended the loop; nothing else appends while
\* variable_bounding_box runs, in particular no failed attempt.
C5_AppendedOnceFromResolvingResponse ==
    /\ \A k \in 1..Len(log) :
          LET e == log[k]
          IN /\ Succeeded(e.query_result.status)
             /\ e.after = e.before \o format_query_result(e.query_result.results,
                                                          conf.box, e.date)
             /\ k < Len(log) => log[k + 1].before = e.after
    /\ (log # <<>> /\ mainpc \in {"run", "summary", "closing"}) =>
          features = log[Len(log)].after
    /\ (log = <<>> /\ mainpc # "done") => features \in PriorFiles
    /\ mainpc \in {"run"} \cup Final =>
          Len(log) + Cardinality(InProgress) = num_queries

C5_Witness ==
    \E k \in 1..Len(log) :
        /\ log[k].attempts = MaxRetries + 1
        /\ Len(log[k].after) > Len(log[k].before)

Failed == OtherStatuses \cup {"connection_error"}

\* C6: after an attempt ended in a connection error or a status other than
\* OK / ZERO_RESULTS the run stays on that tile: it is pausing or, the pause
\* over, about to search the same tile again.
C6_RetrySameTileAfterPause ==
    last_outcome \in Failed =>
        /\ mainpc = "run"
        /\ stack # <<>>
        /\ Top.pc \in {"pause", "try"}
        /\ Coordinate(Top) = last_tile
        /\ (Top.pc = "try") = (slept >= wait_time * SecondsPerMinute)

C6_Witness ==
    /\ last_outcome = "connection_error"
    /\ At("try")
    /\ Top.attempts = MaxRetries
    /\ Len(stack) = 2
    /\ Top.i = 2

\* every response of the run was a non-truncated success
AllPlainSuccess ==
    /\ failures = 0
    /\ \A k \in 1..Len(log) :
          /\ log[k].query_result.status = "OK"
          /\ Len(log[k].query_result.results) < ResultCap

\* so far every response, also of the visits in progress, was one
PlainSoFar ==
    /\ AllPlainSuccess
    /\ \A d \in 1..Len(stack) :
          stack[d].pc = "emit" =>
              /\ stack[d].query_result.status = "OK"
              /\ Len(stack[d].query_result.results) < ResultCap

\* the tiles of the initial tessellation that survive the region filter
InitialTiles ==
    pixelise_region(divide_bounding_box(conf.box[3], conf.box[1], conf.box[4],
                                        conf.box[2], conf.querybox_dim),
                    conf.shapefile)

\* the ids of a list of records
Ids(fs) == {fs[k].id : k \in 1..Len(fs)}

\* C7: when every response is a non-truncated success the run issues exactly
\* one query per region-surviving tile of the initial tessellation and never
\* recurses; on the 1000 m square with 500 m tiles and 5 hits a call that is
\* 4 queries, 20 records before and 20 after deduplication.
C7_OneQueryPerInitialTile ==
    /\ PlainSoFar => max_depth <= 1 /\ Len(stack) <= 1
    /\ (mainpc \in Final /\ AllPlainSuccess) =>
          /\ requests = Len(InitialTiles)
          /\ [k \in 1..Len(log) |-> log[k].coordinate] = InitialTiles
          /\ max_depth = 1
    /\ (mainpc \in Final /\ conf.service = "ok5") =>
          /\ requests = 4
          /\ num_queries = 4
          /\ max_depth = 1
    /\ (mainpc = "closing" /\ conf.service = "ok5") =>
          Len(features) = 4 * E2EHits
    /\ (mainpc = "done" /\ conf.service = "ok5") =>
          /\ Len(raw) = 20
          /\ Cardinality(Ids(raw)) = 20
          /\ Len(features) = 20

C7_Witness ==
    /\ mainpc = "done"
    /\ conf.service = "ok5"
    /\ conf.box = <<0, 0, 2000, 2000>>
    /\ conf.querybox_dim = 1000
    /\ AllPlainSuccess
    /\ requests = 4
    /\ Len(raw) = 20

\* the position of the first record of fs that carries the id
FirstIndex(fs, id) ==
    CHOOSE k \in 1..Len(fs) : /\ fs[k].id = id
                              /\ \A j \in 1..(k - 1) : fs[j].id # id

\* C8: the closing pass leaves exactly one record for each id of the list it
\* read, the first occurrence of that id, in the order of the first
\* occurrences; a second pass changes nothing; and the length drops by the
\* number of records that repeat an earlier id.
C8_DeduplicationKeepsFirstOccurrences ==
    mainpc = "done" =>
        /\ Ids(features) = Ids(raw)
        /\ Len(features) = Cardinality(Ids(raw))
        /\ \A m \in 1..Len(features) :
              features[m] = raw[FirstIndex(raw, features[m].id)]
        /\ \A m \in 1..(Len(features) - 1) :
              FirstIndex(raw, features[m].id) < FirstIndex(raw, features[m + 1].id)
        /\ remove_duplicate(features) = features
        /\ Len(raw) - Len(features) =
              Cardinality({k \in 1..Len(raw) :
                              \E j \in 1..(k - 1) : raw[j].id = raw[k].id})

C8_Witness ==
    /\ mainpc = "done"
    /\ Len(features) < Len(raw)
    /\ \E j, k \in 1..Len(raw) :
          /\ j < k
          /\ raw[j].id = raw[k].id
          /\ raw[j] # raw[k]
          /\ \E m \in 1..Len(features) : features[m] = raw[j]

CompleteCentre(a) == a.lat # None /\ a.lng # None
CompleteBox(a) ==
    a.max_lat # None /\ a.max_lng # None /\ a.min_lat # None /\ a.min_lng # None

\* C9: extract_poi raises ValueError exactly when the arguments hold neither
\* a complete centre point nor a complete box; when it raises no request has
\* been sent, and when it does not exactly one has.
C9_ValueErrorIffNoCentreAndNoBox ==
    mainpc = "extracted" =>
        /\ xout.raised = (~CompleteCentre(xargs) /\ ~CompleteBox(xargs))
        /\ xout.raised => requests = 0
        /\ ~xout.raised => requests = 1

C9_Witness ==
    /\ mainpc = "extracted"
    /\ xout.raised
    /\ xargs.max_lat # None
    /\ xargs.lat # None
    /\ requests = 0

\* C10 (as stated): the tally of the final summary equals the number of
\* search calls issued during the run.
C10_TallyEqualsSearchCalls ==
    mainpc \in {"closing", "done"} => reported = requests

\* The ids an uninterrupted run stores under a deterministic service: those
\* of each tile's own response that lie in the area of interest and, where
\* the tile is subdivided, those of its sub-tiles.
RECURSIVE RunIds(_, _)
TileIds(c, querybox_dim) ==
    LET r == CHOOSE x \in Answers(conf.service, c, querybox_dim) : TRUE
    IN Ids(format_query_result(r.results, conf.box, 0))
         \cup IF /\ Len(r.results) >= ResultCap
                 /\ querybox_dim >= 2 * FloorHalfMetres
              THEN RunIds(pixelise_region(
                              divide_bounding_box(c[3], c[1], c[4], c[2],
                                                  querybox_dim \div 2),
                              conf.shapefile),
                          querybox_dim \div 2)
              ELSE {}
RunIds(tiles, querybox_dim) ==
    UNION {TileIds(tiles[k], querybox_dim) : k \in 1..Len(tiles)}

\* C11: a run interrupted between tiles, run again from the start against
\* the same output file and deduplicated, ends with the same set of ids as
\* one uninterrupted run followed by deduplication.
C11_RerunYieldsSameIds ==
    mainpc = "done" => Ids(features) = RunIds(InitialTiles, conf.querybox_dim)

C11_Witness ==
    /\ mainpc = "done"
    /\ runs = 2
    /\ conf.service = "stub10"
    /\ Len(raw) > Len(features)
    /\ Len(log) = num_queries

\* the visits whose tile was not subdivided, in order
FinalVisits == SelectSeq(log, LAMBDA e : ~Subdivided(e))

\* C12: when variable_bounding_box has returned, box_dimensions holds one
\* entry, the tile's own edge, for every queried tile that was not subdivided
\* and none for a subdivided tile; so num_queries is the length of
\* box_dimensions plus the number of subdivided tiles.
C12_OneEdgePerFinalTile ==
    mainpc \in Final =>
        /\ Len(log) = num_queries
        /\ box_dimensions = [k \in 1..Len(FinalVisits) |-> FinalVisits[k].querybox_dim]
        /\ num_queries = Len(box_dimensions)
                           + Cardinality({k \in 1..Len(log) : Subdivided(log[k])})

C12_Witness ==
    /\ mainpc \in Final
    /\ \E k \in 1..Len(log) : Subdivided(log[k])
    /\ \E k \in 1..Len(log) : /\ Len(log[k].query_result.results) >= ResultCap
                              /\ ~Subdivided(log[k])
    /\ \E k \in 1..Len(log) : log[k].query_result.status = "ZERO_RESULTS"

\* C13: after a search call that returned OK or ZERO_RESULTS the pacing
\* delay has been slept before anything else happens, so before the next
\* search call, be it for the next tile or for the first sub-tile.
C13_PacedAfterEverySuccess ==
    (mainpc = "run" /\ last_outcome \in {"OK", "ZERO_RESULTS"}) =>
        slept >= PacingSeconds

C13_Witness ==
    /\ At("try")
    /\ Len(stack) = 2
    /\ Top.i = 1
    /\ Top.attempts = 0
    /\ last_outcome = "OK"
    /\ slept = PacingSeconds

RECURSIVE Pow2(_)
Pow2(n) == IF n <= 0 THEN 1 ELSE 2 * Pow2(n - 1)

\* C14: the activation at nesting depth d (0 for the initial call) runs with
\* the initial edge divided by 2^d; a nested one with an edge of 2.5 m or
\* more, so that the depth never exceeds log2(initial edge / 2.5 m).
C14_DepthBoundedByFloor ==
    /\ \A d \in 1..Len(stack) :
          /\ stack[d].querybox_dim * Pow2(d - 1) = conf.querybox_dim
          /\ d > 1 => stack[d].querybox_dim >= FloorHalfMetres
    /\ Len(stack) <= max_depth
    /\ max_depth > 1 => Pow2(max_depth - 1) * FloorHalfMetres <= conf.querybox_dim

C14_Witness ==
    /\ mainpc = "run"
    /\ Len(stack) = 2
    /\ Top.querybox_dim = FloorHalfMetres
    /\ Top.pc = "emit"
    /\ Len(Top.query_result.results) >= ResultCap

\* C15 (as stated): every run in which variable_bounding_box returns goes
\* through the closing pass; none ends in the closing pass failing to open
\* the output file.
C15_ClosingPassCompletes ==
    mainpc # "file_error"

\* C16: an attempt that ends in a connection error or in a status other
\* than OK / ZERO_RESULTS changes neither the output file, box_dimensions,
\* num_queries nor the position in the tiles; the activation goes on to pause.
C16_FailedAttemptChangesNothing ==
    [][(requests' = requests + 1 /\ last_outcome' \in Failed) =>
          /\ features' = features
          /\ file_exists' = file_exists
          /\ box_dimensions' = box_dimensions
          /\ num_queries' = num_queries
          /\ Len(stack') = Len(stack)
          /\ \A d \in 1..Len(stack) :
                /\ stack'[d].i = stack[d].i
                /\ stack'[d].coordinate_list = stack[d].coordinate_list
                /\ stack'[d].querybox_dim = stack[d].querybox_dim
          /\ stack'[Len(stack)].pc = "pause"]_vars

C16_Witness ==
    /\ At("pause")
    /\ last_outcome \in Failed
    /\ Len(stack) = 2
    /\ Top.i = 2
    /\ features # <<>>
    /\ box_dimensions # <<>>

\* C17: on a response with status OK or ZERO_RESULTS, whatever the number of
\* results and the edge, one of the three designed branches is taken, never
\* the ValueError one.
C17_ValueErrorBranchUnreachable ==
    /\ mainpc = "branched" => xout \in {"record", "recurse", "record_floor"}
    /\ mainpc # "value_error"

C17_Witness ==
    /\ mainpc = "branched"
    /\ xargs.n = ResultCap
    /\ xargs.querybox_dim = 2 * FloorHalfMetres - 1
    /\ xout = "record_floor"

====
